---- MODULE Spec2Model ----
(***************************************************************************)
(* Model of nusfjord_setup (src/src/main.rs): one run of main().           *)
(*                                                                         *)
(* A Building is modelled by the three fields the dealing logic reads      *)
(* (number, deck, abc); name and color only feed the text rendering.       *)
(* A &Building is the index of the record in all_buildings, so two rows    *)
(* of the dataset with equal fields are still two records.                 *)
(* The embedded dataset buildings.tsv is not part of the sources at hand:  *)
(* the datasets below are built from what the specification says about it. *)
(***************************************************************************)
EXTENDS Integers, Sequences, FiniteSets

\* ---------------------------------------------------------------- bounds

\* thread_rng() is seeded from the OS; the model draws the seed from 0..MaxSeed.
MaxSeed == 3
\* -a/--add takes any number of decks; the model passes at most MaxAddin.
MaxAddin == 1

\* ------------------------------------------------------------ the decks

\* enum Decks
Decks == {"Codfish", "Mackerel", "Herring", "Plaice", "Salmon"}

\* .possible_values(&["1", "2", "3", "4", "5"]) of the players argument
PlayerCounts == 1..5

\* ---------------------------------------------------------- the dataset

\* The n records of one section of one deck, numbered base+1 .. base+n.
SectionCards(d, s, n, base) ==
    [i \in 1..n |-> [number |-> base + i, deck |-> d, abc |-> s]]

\* The records of one deck: its A, then B, then C section.  With sharedIds the
\* numbering restarts in every section (identifiers unique per deck and section
\* only); without, identifiers are unique within the deck.
DeckCards(d, na, nb, nc, sharedIds) ==
    SectionCards(d, "A", na, 0)
        \o SectionCards(d, "B", nb, IF sharedIds THEN 0 ELSE na)
        \o SectionCards(d, "C", nc, IF sharedIds THEN 0 ELSE na + nb)

\* Section sizes of every deck of the shipped dataset: enough for any player
\* count and deck selection (3 rows of 3 A cards plus 5 for round 3; 3 rows of
\* 2 B cards plus 3 for round 5; 2 C cards for each of 5 players).
ShippedA == 14
ShippedB == 9
ShippedC == 10

\* The shipped dataset: identifiers unique within a deck, reused across decks.
ShippedTsv ==
    DeckCards("Codfish", ShippedA, ShippedB, ShippedC, FALSE)
        \o DeckCards("Mackerel", ShippedA, ShippedB, ShippedC, FALSE)
        \o DeckCards("Herring", ShippedA, ShippedB, ShippedC, FALSE)
        \o DeckCards("Plaice", ShippedA, ShippedB, ShippedC, FALSE)
        \o DeckCards("Salmon", ShippedA, ShippedB, ShippedC, FALSE)

\* A dataset with too few cards in some section of every deck.
ShortTsv ==
    DeckCards("Codfish", 4, 4, 4, FALSE)
        \o DeckCards("Mackerel", 6, 2, 6, FALSE)
        \o DeckCards("Herring", 14, 2, 10, FALSE)
        \o DeckCards("Plaice", 9, 6, 3, FALSE)
        \o DeckCards("Salmon", 14, 9, 9, FALSE)

\* The shipped section sizes, with identifiers unique per deck and section only.
SharedIdTsv ==
    DeckCards("Codfish", ShippedA, ShippedB, ShippedC, TRUE)
        \o DeckCards("Mackerel", ShippedA, ShippedB, ShippedC, TRUE)
        \o DeckCards("Herring", ShippedA, ShippedB, ShippedC, TRUE)
        \o DeckCards("Plaice", ShippedA, ShippedB, ShippedC, TRUE)
        \o DeckCards("Salmon", ShippedA, ShippedB, ShippedC, TRUE)

Datasets == {"shipped", "short", "sharedid"}

\* The records of dataset d, in file order.
Tsv(d) ==
    CASE d = "shipped" -> ShippedTsv
      [] d = "short" -> ShortTsv
      [] OTHER -> SharedIdTsv

\* ------------------------------------------------------------ the state

VARIABLES
    tsv,                    \* which dataset include_str!("buildings.tsv") holds
    matches,                \* the parsed command line (ArgMatches)
    rng,                    \* the state of thread_rng()
    pc,                     \* the position of main()
    players,                \* let players
    main_deck,              \* let main_deck
    active_decks,           \* let decks_to_use (the local of main)
    setup_a_buildings,
    setup_b_buildings,
    a_iter,                 \* number of items a_iter has yielded
    b_iter,
    dealt_main_deck_cards,
    cur_row,
    row,                    \* the counter __ of the initial-setup loop
    ingame_a_buildings,
    ingame_b_buildings,
    ingame_c_buildings,
    iter2,
    iter3,
    iter4,
    p,                      \* the counter p of the round 4 loop
    output                  \* what has been written to standard output

vars == <<tsv, matches, rng, pc, players, main_deck, active_decks,
          setup_a_buildings, setup_b_buildings, a_iter, b_iter,
          dealt_main_deck_cards, cur_row, row, ingame_a_buildings,
          ingame_b_buildings, ingame_c_buildings, iter2, iter3, iter4, p,
          output>>

\* let all_buildings: the records of the embedded dataset, in file order.
all_buildings == Tsv(tsv)

\* ----------------------------------------------------------- decks_to_use

BaseDecks == {"Codfish", "Herring", "Mackerel"}

\* Mutant of decks_to_use: with -a, the set holds the added decks only.
decks_to_use_addin_only(m) ==
    LET retval == {m.deck}
    IN  IF m.addin # {} THEN m.addin
        ELSE IF m.allbase THEN retval \cup BaseDecks
        ELSE IF m.alldecks THEN retval \cup Decks
        ELSE retval

\* fn decks_to_use(matches): addin is the set of values of -a (empty when the
\* argument is absent).
decks_to_use(m) ==
    LET retval == {m.deck}
    IN  IF m.addin # {} THEN retval \cup m.addin
        ELSE IF m.allbase THEN retval \cup BaseDecks
        ELSE IF m.alldecks THEN retval \cup Decks
        ELSE retval

\* The command lines clap accepts: allbase conflicts with addin, alldecks
\* conflicts with both.
ValidMatches ==
    {m \in [players : PlayerCounts, deck : Decks, addin : SUBSET Decks,
            allbase : BOOLEAN, alldecks : BOOLEAN] :
        /\ Cardinality(m.addin) <= MaxAddin
        /\ ~(m.allbase /\ m.addin # {})
        /\ ~(m.alldecks /\ (m.allbase \/ m.addin # {}))}

\* ---------------------------------------------------------------- shuffle

\* One step of the generator behind thread_rng().
NextRng(x) == (x * 75 + 74) % 65537

RECURSIVE ShuffleFrom(_, _, _)
\* SliceRandom::shuffle: for i in (1..len).rev() { swap(i, gen_range(0..=i)) },
\* on 1-based positions.  Yields the shuffled vector and the generator's state.
\* (The test of w and r2 is always true: it makes each swap be computed before
\* the next one is started.)
ShuffleFrom(v, i, r) ==
    IF i < 2 THEN [vec |-> v, rng |-> r]
    ELSE LET r2 == NextRng(r)
             j == 1 + (r2 % i)
             w == [v EXCEPT ![i] = v[j], ![j] = v[i]]
         IN  IF Len(w) = Len(v) /\ r2 >= 0
             THEN ShuffleFrom(w, i - 1, r2)
             ELSE [vec |-> v, rng |-> r]

shuffle(v, r) == ShuffleFrom(v, Len(v), r)

\* ------------------------------------------------------------ the filters

\* all_buildings.iter().filter(..).collect(): the indices of the records of
\* deck set ds and section s, in file order.
FilterDecks(ds, s) ==
    SelectSeq([i \in 1..Len(all_buildings) |-> i],
              LAMBDA i : all_buildings[i].deck \in ds /\ all_buildings[i].abc = s)

\* .filter(|b| decks_to_use.contains(b.deck) && b.abc==s): an initial-setup pool.
SetupPool(decks, s) == FilterDecks(decks, s)

\* Mutant of IngamePool: the already-dealt identifiers are not excluded.
IngamePool_no_exclusion(s) == FilterDecks({main_deck}, s)

\* .filter(|b| b.deck==main_deck && b.abc==s && !dealt_main_deck_cards
\* .contains(&b.number)): the in-game A or B pool.
IngamePool(s) ==
    SelectSeq(FilterDecks({main_deck}, s),
              LAMBDA i : all_buildings[i].number \notin dealt_main_deck_cards)

\* Mutant of IngameCPool: the C pool is taken from every active deck.
IngameCPool_active_decks == FilterDecks(active_decks, "C")

\* .filter(|b| b.deck==main_deck && b.abc=="C"): the in-game C pool.
IngameCPool == FilterDecks({main_deck}, "C")

\* Mutant of RecordDealt: the identifier is recorded whatever the card's deck.
RecordDealt_any_deck(b) ==
    dealt_main_deck_cards \cup {all_buildings[b].number}

\* if b.deck == main_deck { dealt_main_deck_cards.insert(&b.number); }
RecordDealt(b) ==
    IF all_buildings[b].deck = main_deck
    THEN dealt_main_deck_cards \cup {all_buildings[b].number}
    ELSE dealt_main_deck_cards

\* ------------------------------------------------------- the draw counts

\* Mutant of round_3_a_cards: the player count, whatever it is.
round_3_a_cards_always == players

\* let round_3_a_cards = if players > 2 {players} else {0};
round_3_a_cards == IF players > 2 THEN players ELSE 0

\* Mutant of round_4_c_cards: 3 cards for 3, 4 or 5 players.
round_4_c_cards_three ==
    CASE players = 2 -> 4
      [] players \in {3, 4, 5} -> 3
      [] OTHER -> 0

\* let round_4_c_cards = match players { 2 => 4, 3 => 3, 4 | 5 => 2, _ => 0 };
round_4_c_cards ==
    CASE players = 2 -> 4
      [] players = 3 -> 3
      [] players \in {4, 5} -> 2
      [] OTHER -> 0

\* Mutant of round_5_b_cards: 2 cards for 3, 4 or 5 players.
round_5_b_cards_two ==
    CASE players \in {3, 4, 5} -> 2
      [] OTHER -> 0

\* let round_5_b_cards = match players { 3 | 4 => 2, 5 => 3, _ => 0 };
round_5_b_cards ==
    CASE players \in {3, 4} -> 2
      [] players = 5 -> 3
      [] OTHER -> 0

\* The loop bounds of the initial setup: for __ in 0..3, for _ in 0..2, for _ in 0..3.
SetupRows == 3
SetupBPerRow == 2

\* Mutant of SetupAPerRow: as many A cards as B cards in a row.
SetupAPerRow_as_b == SetupBPerRow

SetupAPerRow == 3

\* ------------------------------------------------------------ the output

\* fn print_card_row: one row of boxes on standard output (five lines, one box
\* per card).  site names the call that printed it.
print_card_row(site, cards, print_separator, is_spoiler) ==
    [site |-> site, kind |-> "row", cards |-> cards,
     print_separator |-> print_separator, is_spoiler |-> is_spoiler, player |-> 0]

\* println!("********* ROUND n CARDS *********")
Header(site) ==
    [site |-> site, kind |-> "header", cards |-> <<>>,
     print_separator |-> FALSE, is_spoiler |-> FALSE, player |-> 0]

\* println!("Doing Player {}", p)
PlayerLine(n) ==
    [site |-> "round4", kind |-> "player", cards |-> <<>>,
     print_separator |-> FALSE, is_spoiler |-> FALSE, player |-> n]

\* ----------------------------------------------------------------- Init

Init ==
    /\ tsv \in Datasets
    /\ matches \in ValidMatches
    /\ rng \in 0..MaxSeed
    /\ pc = "start"
    /\ players = 0
    /\ main_deck = "none"
    /\ active_decks = {}
    /\ setup_a_buildings = <<>>
    /\ setup_b_buildings = <<>>
    /\ a_iter = 0
    /\ b_iter = 0
    /\ dealt_main_deck_cards = {}
    /\ cur_row = <<>>
    /\ row = 0
    /\ ingame_a_buildings = <<>>
    /\ ingame_b_buildings = <<>>
    /\ ingame_c_buildings = <<>>
    /\ iter2 = 0
    /\ iter3 = 0
    /\ iter4 = 0
    /\ p = 0
    /\ output = <<>>

\* The variables of the in-game phase.
ingame_vars == <<ingame_a_buildings, ingame_b_buildings, ingame_c_buildings,
                 iter2, iter3, iter4, p>>

\* The variables the argument parsing and the setup filters assign.
config_vars == <<tsv, matches, players, main_deck, active_decks>>

\* Mutant of Panic: the row built so far is printed before the process ends.
Panic_prints_row ==
    /\ pc' = "panicked"
    /\ output' = Append(output, print_card_row("abort", cur_row, FALSE, TRUE))
    /\ UNCHANGED <<config_vars, rng, setup_a_buildings, setup_b_buildings,
                   a_iter, b_iter, dealt_main_deck_cards, cur_row, row,
                   ingame_vars>>

\* Option::unwrap on None: the thread panics and the process ends.
Panic ==
    /\ pc' = "panicked"
    /\ UNCHANGED <<config_vars, rng, setup_a_buildings, setup_b_buildings,
                   a_iter, b_iter, dealt_main_deck_cards, cur_row, row,
                   ingame_vars, output>>

\* -------------------------------------------------------------- actions

\* main, lines 180-210: the arguments, the two setup pools and their shuffle.
ParseAndFilter ==
    /\ pc = "start"
    /\ players' = matches.players
    /\ main_deck' = matches.deck
    /\ active_decks' = decks_to_use(matches)
    /\ LET a == shuffle(SetupPool(decks_to_use(matches), "A"), rng)
           b == shuffle(SetupPool(decks_to_use(matches), "B"), a.rng)
       IN  /\ setup_a_buildings' = a.vec
           /\ setup_b_buildings' = b.vec
           /\ rng' = b.rng
    /\ pc' = "setup"
    /\ UNCHANGED <<tsv, matches, a_iter, b_iter, dealt_main_deck_cards,
                   cur_row, row, ingame_vars, output>>

\* for _ in 0..2 { let b = b_iter.next().unwrap(); ...; cur_row.push(b); }
DrawSetupB ==
    /\ pc = "setup"
    /\ row < SetupRows
    /\ Len(cur_row) < SetupBPerRow
    /\ \/ /\ b_iter < Len(setup_b_buildings)
          /\ LET b == setup_b_buildings[b_iter + 1]
             IN  /\ dealt_main_deck_cards' = RecordDealt(b)
                 /\ cur_row' = Append(cur_row, b)
          /\ b_iter' = b_iter + 1
          /\ UNCHANGED <<config_vars, rng, pc, setup_a_buildings,
                         setup_b_buildings, a_iter, row, ingame_vars, output>>
       \/ /\ b_iter >= Len(setup_b_buildings)
          /\ Panic

\* for _ in 0..3 { let b = a_iter.next().unwrap(); ...; cur_row.push(b); }
DrawSetupA ==
    /\ pc = "setup"
    /\ row < SetupRows
    /\ Len(cur_row) >= SetupBPerRow
    /\ Len(cur_row) < SetupBPerRow + SetupAPerRow
    /\ \/ /\ a_iter < Len(setup_a_buildings)
          /\ LET b == setup_a_buildings[a_iter + 1]
             IN  /\ dealt_main_deck_cards' = RecordDealt(b)
                 /\ cur_row' = Append(cur_row, b)
          /\ a_iter' = a_iter + 1
          /\ UNCHANGED <<config_vars, rng, pc, setup_a_buildings,
                         setup_b_buildings, b_iter, row, ingame_vars, output>>
       \/ /\ a_iter >= Len(setup_a_buildings)
          /\ Panic

\* print_card_row(&cur_row, true, false); cur_row.clear();
PrintSetupRow ==
    /\ pc = "setup"
    /\ row < SetupRows
    /\ Len(cur_row) = SetupBPerRow + SetupAPerRow
    /\ output' = Append(output, print_card_row("setup", cur_row, TRUE, FALSE))
    /\ cur_row' = <<>>
    /\ row' = row + 1
    /\ UNCHANGED <<config_vars, rng, pc, setup_a_buildings, setup_b_buildings,
                   a_iter, b_iter, dealt_main_deck_cards, ingame_vars>>

\* main, lines 229-254: the three in-game pools and their shuffle.
FilterIngame ==
    /\ pc = "setup"
    /\ row = SetupRows
    /\ LET a == shuffle(IngamePool("A"), rng)
           b == shuffle(IngamePool("B"), a.rng)
           c == shuffle(IngameCPool, b.rng)
       IN  /\ ingame_a_buildings' = a.vec
           /\ ingame_b_buildings' = b.vec
           /\ ingame_c_buildings' = c.vec
           /\ rng' = c.rng
    /\ cur_row' = <<>>
    /\ pc' = "round3"
    /\ UNCHANGED <<config_vars, setup_a_buildings, setup_b_buildings, a_iter,
                   b_iter, dealt_main_deck_cards, row, iter2, iter3, iter4, p,
                   output>>

\* if round_3_a_cards > 0 { println!("********* ROUND 3 CARDS *********"); ...
Round3Begin ==
    /\ pc = "round3"
    /\ \/ /\ round_3_a_cards > 0
          /\ output' = Append(output, Header("round3"))
          /\ pc' = "round3_draw"
       \/ /\ ~(round_3_a_cards > 0)
          /\ output' = output
          /\ pc' = "round4"
    /\ UNCHANGED <<config_vars, rng, setup_a_buildings, setup_b_buildings,
                   a_iter, b_iter, dealt_main_deck_cards, cur_row, row,
                   ingame_vars>>

\* for _ in 0..round_3_a_cards { cur_row.push(iter2.next().unwrap()); }
Round3Draw ==
    /\ pc = "round3_draw"
    /\ Len(cur_row) < round_3_a_cards
    /\ \/ /\ iter2 < Len(ingame_a_buildings)
          /\ cur_row' = Append(cur_row, ingame_a_buildings[iter2 + 1])
          /\ iter2' = iter2 + 1
          /\ UNCHANGED <<config_vars, rng, pc, setup_a_buildings,
                         setup_b_buildings, a_iter, b_iter,
                         dealt_main_deck_cards, row, ingame_a_buildings,
                         ingame_b_buildings, ingame_c_buildings, iter3, iter4,
                         p, output>>
       \/ /\ iter2 >= Len(ingame_a_buildings)
          /\ Panic

\* print_card_row(&cur_row, false, true); cur_row.clear();  (round 3)
Round3Print ==
    /\ pc = "round3_draw"
    /\ Len(cur_row) = round_3_a_cards
    /\ output' = Append(output, print_card_row("round3", cur_row, FALSE, TRUE))
    /\ cur_row' = <<>>
    /\ pc' = "round4"
    /\ UNCHANGED <<config_vars, rng, setup_a_buildings, setup_b_buildings,
                   a_iter, b_iter, dealt_main_deck_cards, row, ingame_vars>>

\* println!("******** ROUND 4 CARDS ********"); let mut iter3 = ...;
Round4Begin ==
    /\ pc = "round4"
    /\ output' = Append(output, Header("round4"))
    /\ iter3' = 0
    /\ p' = 0
    /\ pc' = "round4_player"
    /\ UNCHANGED <<config_vars, rng, setup_a_buildings, setup_b_buildings,
                   a_iter, b_iter, dealt_main_deck_cards, cur_row, row,
                   ingame_a_buildings, ingame_b_buildings, ingame_c_buildings,
                   iter2, iter4>>

\* for p in 0..players { println!("Doing Player {}", p); ...
Round4Player ==
    /\ pc = "round4_player"
    /\ \/ /\ p < players
          /\ output' = Append(output, PlayerLine(p))
          /\ pc' = "round4_draw"
       \/ /\ ~(p < players)
          /\ output' = output
          /\ pc' = "round5"
    /\ UNCHANGED <<config_vars, rng, setup_a_buildings, setup_b_buildings,
                   a_iter, b_iter, dealt_main_deck_cards, cur_row, row,
                   ingame_vars>>

\* for _ in 0..round_4_c_cards { cur_row.push(iter3.next().unwrap()); }
Round4Draw ==
    /\ pc = "round4_draw"
    /\ Len(cur_row) < round_4_c_cards
    /\ \/ /\ iter3 < Len(ingame_c_buildings)
          /\ cur_row' = Append(cur_row, ingame_c_buildings[iter3 + 1])
          /\ iter3' = iter3 + 1
          /\ UNCHANGED <<config_vars, rng, pc, setup_a_buildings,
                         setup_b_buildings, a_iter, b_iter,
                         dealt_main_deck_cards, row, ingame_a_buildings,
                         ingame_b_buildings, ingame_c_buildings, iter2, iter4,
                         p, output>>
       \/ /\ iter3 >= Len(ingame_c_buildings)
          /\ Panic

\* Mutant of Round4Print: the iterator over the C pool restarts for each player.
Round4Print_restart ==
    /\ pc = "round4_draw"
    /\ Len(cur_row) = round_4_c_cards
    /\ output' = Append(output, print_card_row("round4", cur_row, FALSE, TRUE))
    /\ cur_row' = <<>>
    /\ p' = p + 1
    /\ iter3' = 0
    /\ pc' = "round4_player"
    /\ UNCHANGED <<config_vars, rng, setup_a_buildings, setup_b_buildings,
                   a_iter, b_iter, dealt_main_deck_cards, row,
                   ingame_a_buildings, ingame_b_buildings, ingame_c_buildings,
                   iter2, iter4>>

\* print_card_row(&cur_row, false, true); cur_row.clear();  (round 4, player p)
Round4Print ==
    /\ pc = "round4_draw"
    /\ Len(cur_row) = round_4_c_cards
    /\ output' = Append(output, print_card_row("round4", cur_row, FALSE, TRUE))
    /\ cur_row' = <<>>
    /\ p' = p + 1
    /\ pc' = "round4_player"
    /\ UNCHANGED <<config_vars, rng, setup_a_buildings, setup_b_buildings,
                   a_iter, b_iter, dealt_main_deck_cards, row,
                   ingame_a_buildings, ingame_b_buildings, ingame_c_buildings,
                   iter2, iter3, iter4>>

\* if round_5_b_cards > 0 { println!("********* ROUND 5 CARDS *********"); ...
Round5Begin ==
    /\ pc = "round5"
    /\ \/ /\ round_5_b_cards > 0
          /\ output' = Append(output, Header("round5"))
          /\ pc' = "round5_draw"
       \/ /\ ~(round_5_b_cards > 0)
          /\ output' = output
          /\ pc' = "done"
    /\ UNCHANGED <<config_vars, rng, setup_a_buildings, setup_b_buildings,
                   a_iter, b_iter, dealt_main_deck_cards, cur_row, row,
                   ingame_vars>>

\* for _ in 0..round_5_b_cards { cur_row.push(iter4.next().unwrap()); }
Round5Draw ==
    /\ pc = "round5_draw"
    /\ Len(cur_row) < round_5_b_cards
    /\ \/ /\ iter4 < Len(ingame_b_buildings)
          /\ cur_row' = Append(cur_row, ingame_b_buildings[iter4 + 1])
          /\ iter4' = iter4 + 1
          /\ UNCHANGED <<config_vars, rng, pc, setup_a_buildings,
                         setup_b_buildings, a_iter, b_iter,
                         dealt_main_deck_cards, row, ingame_a_buildings,
                         ingame_b_buildings, ingame_c_buildings, iter2, iter3,
                         p, output>>
       \/ /\ iter4 >= Len(ingame_b_buildings)
          /\ Panic

\* print_card_row(&cur_row, false, true); cur_row.clear();  (round 5)
Round5Print ==
    /\ pc = "round5_draw"
    /\ Len(cur_row) = round_5_b_cards
    /\ output' = Append(output, print_card_row("round5", cur_row, FALSE, TRUE))
    /\ cur_row' = <<>>
    /\ pc' = "done"
    /\ UNCHANGED <<config_vars, rng, setup_a_buildings, setup_b_buildings,
                   a_iter, b_iter, dealt_main_deck_cards, row, ingame_vars>>

Next ==
    \/ ParseAndFilter
    \/ DrawSetupB
    \/ DrawSetupA
    \/ PrintSetupRow
    \/ FilterIngame
    \/ Round3Begin
    \/ Round3Draw
    \/ Round3Print
    \/ Round4Begin
    \/ Round4Player
    \/ Round4Draw
    \/ Round4Print
    \/ Round5Begin
    \/ Round5Draw
    \/ Round5Print

Spec == Init /\ [][Next]_vars

\* ------------------------------------------------------ reading the output

\* The card rows printed by the call site `site`, in order.
Rows(site) == SelectSeq(output, LAMBDA o : o.kind = "row" /\ o.site = site)

\* Everything printed by the round `site`: header, player lines, rows.
Printed(site) == SelectSeq(output, LAMBDA o : o.site = site)

\* The set of elements of a sequence.
Range(q) == {q[i] : i \in DOMAIN q}

\* The records dealt in the rows of `site`.
CardsOf(site) == UNION {Range(o.cards) : o \in Range(Rows(site))}

RECURSIVE Flatten(_)
\* The cards of a sequence of output items, in the order they were dealt.
Flatten(items) ==
    IF items = <<>> THEN <<>> ELSE Head(items).cards \o Flatten(Tail(items))

\* The per-player round 4 draw count of the specification, by player count.
ExpectedRound4 == <<0, 4, 3, 2, 2>>

\* The round 5 draw count of the specification, by player count.
ExpectedRound5 == <<0, 0, 2, 2, 3>>

\* The round 3 draw count of the specification.
ExpectedRound3(n) == IF n > 2 THEN n ELSE 0

\* ------------------------------------------------------------------ C1

\* The rows a complete run outputs, by the player count given on the command line.
ExpectedRows ==
    /\ Len(Rows("setup")) = 3
    /\ Len(Rows("round3")) = (IF matches.players > 2 THEN 1 ELSE 0)
    /\ Len(Rows("round4")) = matches.players
    /\ Len(Rows("round5")) = (IF matches.players \in {3, 4, 5} THEN 1 ELSE 0)

\* How far main has got: the phase, then the loop counters within the phase.
Progress ==
    CASE pc = "start" -> 0
      [] pc = "setup" -> 100 + 6 * row + Len(cur_row)
      [] pc = "round3" -> 200
      [] pc = "round3_draw" -> 300 + Len(cur_row)
      [] pc = "round4" -> 400
      [] pc = "round4_player" -> 500 + 10 * p
      [] pc = "round4_draw" -> 500 + 10 * p + 1 + Len(cur_row)
      [] pc = "round5" -> 600
      [] pc = "round5_draw" -> 700 + Len(cur_row)
      [] OTHER -> 800

\* Some statement of main is left to execute: the position is inside one of
\* the loops (whose draws either yield a card or panic) or before a round.
CanStep ==
    \/ pc = "start"
    \/ pc = "setup" /\ row < 3 /\ Len(cur_row) <= 5
    \/ pc = "setup" /\ row = 3
    \/ pc \in {"round3", "round4", "round4_player", "round5"}
    \/ pc = "round3_draw" /\ Len(cur_row) <= ExpectedRound3(matches.players)
    \/ pc = "round4_draw" /\ Len(cur_row) <= ExpectedRound4[matches.players]
    \/ pc = "round5_draw" /\ Len(cur_row) <= ExpectedRound5[matches.players]

\* C1: with the shipped dataset, for every player count and deck selection the
\* run reaches the end of main: no step panics on an exhausted pool, every
\* step advances (so the run is finite) and leads to the end or to a position
\* with a statement left to execute, and at the end the run has output 3
\* setup rows, a round 3 row iff players > 2, one round 4 row per player and
\* a round 5 row iff players is 3, 4 or 5.
C1_RunCompletes ==
    [][tsv = "shipped" =>
          /\ Progress' > Progress
          /\ Progress' <= 800
          /\ pc' # "panicked"
          /\ pc' # "done" => CanStep'
          /\ pc' = "done" => ExpectedRows']_vars

\* A five-player run with --all-decks on the shipped dataset has ended.
C1_Witness ==
    /\ pc = "done"
    /\ tsv = "shipped"
    /\ matches.alldecks
    /\ matches.players = 5
    /\ Len(Rows("round4")) = 5

\* ------------------------------------------------------------------ C2

\* The identifiers of the primary-deck cards dealt in the setup rows output so far.
SetupPrimaryIds ==
    {all_buildings[c].number :
        c \in {d \in CardsOf("setup") : all_buildings[d].deck = matches.deck}}

\* C2: no card drawn in round 3 or round 5 (in a printed row or in the row
\* being built) carries an identifier of the already-dealt set or of a
\* primary-deck card of the setup rows.
C2_NoDealtIdInRounds ==
    LET ids == SetupPrimaryIds
    IN  \A c \in CardsOf("round3") \cup CardsOf("round5")
                 \cup (IF pc \in {"round3_draw", "round5_draw"}
                       THEN Range(cur_row) ELSE {}) :
            /\ all_buildings[c].number \notin dealt_main_deck_cards
            /\ all_buildings[c].number \notin ids

\* A run that dealt primary-deck cards in setup and then rounds 3 and 5.
C2_Witness ==
    /\ pc = "done"
    /\ SetupPrimaryIds # {}
    /\ dealt_main_deck_cards = SetupPrimaryIds
    /\ CardsOf("round3") # {}
    /\ CardsOf("round5") # {}

\* ------------------------------------------------------------------ C3

\* C3: printed round rows hold the specified number of cards; at the end of a
\* run round 3 has dealt p cards if p > 2 (else none), round 4 one row of
\* 4/3/2/2 (0 for one player) cards for each of the p players, the C pool
\* being consumed draw-count x p times, and round 5 has dealt 2/2/3 cards for
\* 3/4/5 players (else none).
C3_DrawCounts ==
    LET n == matches.players
    IN  /\ \A o \in Range(Rows("round3")) : Len(o.cards) = ExpectedRound3(n)
        /\ \A o \in Range(Rows("round4")) : Len(o.cards) = ExpectedRound4[n]
        /\ \A o \in Range(Rows("round5")) : Len(o.cards) = ExpectedRound5[n]
        /\ pc = "done" =>
              /\ Cardinality(CardsOf("round3")) = ExpectedRound3(n)
              /\ iter2 = ExpectedRound3(n)
              /\ Len(Rows("round4")) = n
              /\ Cardinality(CardsOf("round4")) = ExpectedRound4[n] * n
              /\ iter3 = ExpectedRound4[n] * n
              /\ Cardinality(CardsOf("round5")) = ExpectedRound5[n]
              /\ iter4 = ExpectedRound5[n]

\* A five-player run has ended: 5 round 3 cards, 10 C cards, 3 round 5 cards.
C3_Witness ==
    /\ pc = "done"
    /\ matches.players = 5
    /\ iter2 = 5
    /\ iter3 = 10
    /\ iter4 = 3

\* ------------------------------------------------------------------ C4

\* C4 as stated: a round whose draw count is zero for the player count outputs
\* nothing, round 4 with one player included.
C4_ZeroRoundSilent ==
    LET n == matches.players
    IN  /\ ExpectedRound3(n) = 0 => Printed("round3") = <<>>
        /\ ExpectedRound4[n] = 0 => Printed("round4") = <<>>
        /\ ExpectedRound5[n] = 0 => Printed("round5") = <<>>

\* C4 amended: rounds 3 and 5 output nothing when their draw count is zero;
\* round 4 is never skipped: with one player (draw count zero) the run still
\* outputs the round 4 header, the line of player 0 and one row of no cards.
C4_ZeroRound3And5Silent ==
    LET n == matches.players
    IN  /\ ExpectedRound3(n) = 0 => Printed("round3") = <<>>
        /\ ExpectedRound5[n] = 0 => Printed("round5") = <<>>
        /\ (pc = "done" /\ n = 1) =>
              /\ Len(Printed("round4")) = 3
              /\ Printed("round4")[1].kind = "header"
              /\ Printed("round4")[2].kind = "player"
              /\ Printed("round4")[2].player = 0
              /\ Printed("round4")[3].kind = "row"
              /\ Printed("round4")[3].cards = <<>>
              /\ Len(output) = 6

\* A one-player run has ended.
C4_Witness ==
    /\ pc = "done"
    /\ matches.players = 1
    /\ Printed("round3") = <<>>
    /\ Printed("round5") = <<>>

\* ------------------------------------------------------------------ C5

\* The sections of the cards of a row, in order.
SectionsOf(cards) == [i \in DOMAIN cards |-> all_buildings[cards[i]].abc]

\* Setup rows are 2 cards of the shuffled B pool then 3 of the shuffled A pool,
\* taken in order; never more than three rows.
SetupRowShape ==
    /\ Len(Rows("setup")) <= 3
    /\ Len(Rows("setup")) = row
    /\ \A k \in 1..Len(Rows("setup")) :
          LET r == Rows("setup")[k]
          IN  /\ SectionsOf(r.cards) = <<"B", "B", "A", "A", "A">>
              /\ r.cards = <<setup_b_buildings[2 * k - 1], setup_b_buildings[2 * k],
                             setup_a_buildings[3 * k - 2], setup_a_buildings[3 * k - 1],
                             setup_a_buildings[3 * k]>>

\* C5 as stated: three rows of 2 B then 3 A cards, and after initial setup
\* 15 A cards and 6 B cards have been consumed.
C5_Setup15A ==
    /\ SetupRowShape
    /\ row = 3 => (Len(Rows("setup")) = 3 /\ a_iter = 15 /\ b_iter = 6)

\* C5 amended: three rows of 2 B then 3 A cards, and after initial setup
\* 9 A cards and 6 B cards (15 cards in all) have been consumed.
C5_Setup9A ==
    /\ SetupRowShape
    /\ row = 3 => (Len(Rows("setup")) = 3 /\ a_iter = 9 /\ b_iter = 6
                    /\ Cardinality(CardsOf("setup")) = 15)

\* Initial setup has just finished.
C5_Witness ==
    /\ pc = "setup"
    /\ row = 3
    /\ Len(Rows("setup")) = 3

\* ------------------------------------------------------------------ C6

\* C6: once the setup pools are built, a record is in setup A or setup B iff
\* its deck is in the active-deck set and its section is A or B; the two pools
\* are disjoint and the active-deck set contains the primary deck.
C6_SetupPools ==
    pc # "start" =>
        LET pools == Range(setup_a_buildings) \cup Range(setup_b_buildings)
            data == all_buildings
        IN  /\ \A i \in 1..Len(data) :
                  (i \in pools) <=> (/\ data[i].deck \in active_decks
                                    /\ data[i].abc \in {"A", "B"})
            /\ Range(setup_a_buildings) \cap Range(setup_b_buildings) = {}
            /\ matches.deck \in active_decks

\* The pools were built for a primary deck with one other deck added.
C6_Witness ==
    /\ pc = "setup"
    /\ matches.addin # {}
    /\ Cardinality(active_decks) = 2
    /\ setup_a_buildings # <<>>

\* ------------------------------------------------------------------ C7

\* C7: every card drawn in round 3, 4, 5 is of the primary deck and of section
\* A, C, B; cards of other decks appear in setup rows only.
C7_RoundsPrimaryOnly ==
    /\ \A c \in CardsOf("round3") :
          all_buildings[c].deck = matches.deck /\ all_buildings[c].abc = "A"
    /\ \A c \in CardsOf("round4") :
          all_buildings[c].deck = matches.deck /\ all_buildings[c].abc = "C"
    /\ \A c \in CardsOf("round5") :
          all_buildings[c].deck = matches.deck /\ all_buildings[c].abc = "B"
    /\ \A o \in Range(output) :
          (\E c \in Range(o.cards) : all_buildings[c].deck # matches.deck)
              => o.site = "setup"

\* A five-player --all-decks run has ended with other decks' cards in setup.
C7_Witness ==
    /\ pc = "done"
    /\ matches.alldecks
    /\ matches.players = 5
    /\ \E c \in CardsOf("setup") : all_buildings[c].deck # matches.deck
    /\ CardsOf("round4") # {}

\* ------------------------------------------------------------------ C8

\* The next step of main is a draw from a pool whose iterator is at its end.
ExhaustedDraw ==
    \/ /\ pc = "setup" /\ row < 3 /\ Len(cur_row) < 2
       /\ b_iter >= Len(setup_b_buildings)
    \/ /\ pc = "setup" /\ row < 3 /\ Len(cur_row) \in 2..4
       /\ a_iter >= Len(setup_a_buildings)
    \/ /\ pc = "round3_draw" /\ Len(cur_row) < ExpectedRound3(matches.players)
       /\ iter2 >= Len(ingame_a_buildings)
    \/ /\ pc = "round4_draw" /\ Len(cur_row) < ExpectedRound4[matches.players]
       /\ iter3 >= Len(ingame_c_buildings)
    \/ /\ pc = "round5_draw" /\ Len(cur_row) < ExpectedRound5[matches.players]
       /\ iter4 >= Len(ingame_b_buildings)

\* C8: a draw from an exhausted pool aborts the run at that draw with the
\* output as it was; the run aborts in no other case; after the abort nothing
\* changes any more (no retry, no substitute draw, no later row).
C8_ExhaustionIsFatal ==
    [][/\ ExhaustedDraw => (pc' = "panicked" /\ output' = output)
       /\ pc' = "panicked" => ExhaustedDraw
       /\ pc # "panicked"]_vars

\* A run aborted in round 4 after rows had been output.
C8_Witness ==
    /\ pc = "panicked"
    /\ Len(Rows("setup")) = 3
    /\ Len(Rows("round4")) >= 1
    /\ cur_row # <<>>

\* ------------------------------------------------------------------ C9

\* Identifiers are unique per deck-and-section combination.
UniquePerDeckSection(data) ==
    \A i, j \in 1..Len(data) :
        (i # j /\ data[i].deck = data[j].deck /\ data[i].abc = data[j].abc)
            => data[i].number # data[j].number

\* Identifiers are unique within a deck.
UniqueWithinDeck(data) ==
    \A i, j \in 1..Len(data) :
        (i # j /\ data[i].deck = data[j].deck)
            => data[i].number # data[j].number

DatasetsUniquePerDeckSection == {d \in Datasets : UniquePerDeckSection(Tsv(d))}

DatasetsUniqueWithinDeck == {d \in Datasets : UniqueWithinDeck(Tsv(d))}

\* The primary-deck records of section s that initial setup did not deal.
UndealtPrimary(s) ==
    LET dealt == CardsOf("setup")
        data == all_buildings
    IN  {i \in 1..Len(data) :
            /\ data[i].deck = matches.deck
            /\ data[i].abc = s
            /\ i \notin dealt}

\* The in-game A and B pools are exactly the undealt primary-deck A and B records.
IngamePoolsExact ==
    pc \in {"round3", "round3_draw", "round4", "round4_player", "round4_draw",
            "round5", "round5_draw", "done"} =>
        LET a == UndealtPrimary("A")
            b == UndealtPrimary("B")
        IN  /\ Range(ingame_a_buildings) = a
            /\ Len(ingame_a_buildings) = Cardinality(a)
            /\ Range(ingame_b_buildings) = b
            /\ Len(ingame_b_buildings) = Cardinality(b)

\* C9 as stated: for a dataset whose identifiers are unique per deck-and-section
\* combination, the in-game A and B pools are exactly the undealt primary-deck
\* A and B records.
C9_ExactPerDeckSection ==
    tsv \in DatasetsUniquePerDeckSection => IngamePoolsExact

\* C9 amended: the same, for a dataset whose identifiers are unique within a
\* deck (across its sections).
C9_ExactWithinDeck ==
    tsv \in DatasetsUniqueWithinDeck => IngamePoolsExact

\* The in-game pools were built after a setup that dealt cards of the primary
\* deck and of another deck, from a dataset with identifiers unique within a deck.
C9_Witness ==
    /\ pc = "round3"
    /\ tsv \in DatasetsUniqueWithinDeck
    /\ dealt_main_deck_cards # {}
    /\ \E c \in CardsOf("setup") : all_buildings[c].deck # matches.deck
    /\ ingame_a_buildings # <<>>
    /\ ingame_b_buildings # <<>>

\* ----------------------------------------------------------------- C10

\* Every card dealt so far, in order: the printed rows, then the row being built.
AllDealt == Flatten(output) \o cur_row

\* C10: no record is dealt twice in a run: the cards of all rows (and of the
\* row being built) are pairwise distinct records, so the round 4 rows of
\* different players are pairwise disjoint.
C10_NoRecordTwice ==
    /\ Cardinality(Range(AllDealt)) = Len(AllDealt)
    /\ \A i, j \in 1..Len(Rows("round4")) :
          i # j => Range(Rows("round4")[i].cards)
                       \cap Range(Rows("round4")[j].cards) = {}

\* A five-player run has ended, with five round 4 rows of two cards.
C10_Witness ==
    /\ pc = "done"
    /\ matches.players = 5
    /\ Len(Rows("round4")) = 5
    /\ Len(AllDealt) = 15 + 5 + 10 + 3

====
